---- MODULE Spec2Model ----
(***************************************************************************)
(* Model of roman-numerals/src/lib.rs: a HarfBuzz WASM shaper that         *)
(* replaces every run of ASCII digit glyphs by the glyphs of its Roman     *)
(* numeral (with combining overlines for the x1000 tier).                  *)
(*                                                                         *)
(* Representation choices:                                                 *)
(*  - a Rust String is a sequence of one-character strings;                *)
(*  - a u64 produced by digits_to_number is a little-endian sequence of    *)
(*    four 16-bit limbs, so that every multiplication and addition is      *)
(*    carried out at the real 64-bit width and its carry-out is visible;   *)
(*  - number_to_roman_numeral works on TLC integers and is only applied    *)
(*    to u64 values below 2^31 (its output for larger values has more      *)
(*    than two thousand symbols).                                          *)
(***************************************************************************)
EXTENDS Integers, Sequences, FiniteSets, TLC

VARIABLES
    \* ---- shape (lib.rs 5-56) ----
    input,      \* ghost: buffer.glyphs as handed over by the host
    font,       \* the Font collaborator obtained from font_ref
    buffer,     \* buffer.glyphs
    pc,         \* position of shape: "idle","scan","resolve","done","panic","huge"
    pos,        \* index of the next item of the scan loop (1-based)
    digits,     \* let mut digits
    out,        \* let mut out
    rpos,       \* index of the next item of the resolver loop (1-based)
    assembled,  \* ghost: out as it was when the resolver loop started
    flushed,    \* ghost: one record per conversion made by process_digits
    \* ---- process_digits taken statement by statement (lib.rs 66-80) ----
    c_digits,   \* the digit run handed to process_digits
    c_stage,    \* "idle","start","skipped","number","huge","roman","glyphs","panic"
    c_number,   \* result of digits_to_number (line 71)
    c_roman,    \* result of number_to_roman_numeral (line 73), with its ghosts
    c_glyphs    \* result of string_to_glyphs (line 74)

shape_vars == <<input, font, buffer, pc, pos, digits, out, rpos, assembled, flushed>>
conv_vars == <<c_digits, c_stage, c_number, c_roman, c_glyphs>>
vars == <<input, font, buffer, pc, pos, digits, out, rpos, assembled, flushed,
          c_digits, c_stage, c_number, c_roman, c_glyphs>>

-----------------------------------------------------------------------------
(* Bounds of the model *)

\* longest input glyph sequence enumerated exhaustively for shape
MaxLen == 4
\* longest digit run enumerated exhaustively for process_digits
MaxRunLen == 4
\* largest number of leading zeros put in front of a run
MaxZeros == 20
\* longest run that follows the leading zeros
MaxTail == 1
\* largest multiple of 1,000,000 handed to the encoder
MaxMillions == 5

-----------------------------------------------------------------------------
(* Sequence helpers *)

SeqsUpTo(S, n) == UNION {[1..k -> S] : k \in 0..n}

Zeros(k) == [j \in 1..k |-> 0]

RECURSIVE Concat(_)
Concat(ss) == IF ss = <<>> THEN <<>> ELSE Head(ss) \o Concat(Tail(ss))

RECURSIVE SumSeq(_)
SumSeq(s) == IF s = <<>> THEN 0 ELSE Head(s) + SumSeq(Tail(s))

\* F applied to the value of x.  TLC hands an operator its arguments
\* unevaluated; a loop that threads an accumulator would otherwise evaluate the
\* whole chain of iterations at its last step, nested one inside the other.
Strict(F(_), x) == CHOOSE r \in {F(v) : v \in {x}} : TRUE

Count(s, x) == Cardinality({j \in 1..Len(s) : s[j] = x})

-----------------------------------------------------------------------------
(* u64 arithmetic on four 16-bit limbs, least significant first *)

WZero == <<0, 0, 0, 0>>
WOne == <<1, 0, 0, 0>>

\* a * k for a small factor k: the wrapped product and the carry out of bit 63
WMulSmall(a, k) ==
    LET t1 == a[1] * k
        t2 == a[2] * k + t1 \div 65536
        t3 == a[3] * k + t2 \div 65536
        t4 == a[4] * k + t3 \div 65536
    IN [val |-> <<t1 % 65536, t2 % 65536, t3 % 65536, t4 % 65536>>,
        carry |-> t4 \div 65536]

\* a + b: the wrapped sum and the carry out of bit 63
WAdd(a, b) ==
    LET t1 == a[1] + b[1]
        t2 == a[2] + b[2] + t1 \div 65536
        t3 == a[3] + b[3] + t2 \div 65536
        t4 == a[4] + b[4] + t3 \div 65536
    IN [val |-> <<t1 % 65536, t2 % 65536, t3 % 65536, t4 % 65536>>,
        carry |-> t4 \div 65536]

\* the u64 values TLC's integers can hold
FitsInt(w) == w[3] = 0 /\ w[4] = 0 /\ w[2] < 32768
AsInt(w) == w[1] + 65536 * w[2]

\* 10u64.pow(exp): the wrapped power and whether a multiplication overflowed.
\* u64::pow multiplies by squaring; every intermediate is a power of ten no
\* larger than the result, so it overflows exactly when this product does.
RECURSIVE PowLoop(_, _)
PowLoop(n, acc) ==
    IF n = 0 THEN acc
    ELSE LET m == WMulSmall(acc.val, 10)
         IN Strict(LAMBDA v : PowLoop(n - 1, v),
                   [val |-> m.val, ovf |-> acc.ovf \/ m.carry # 0])

Pow10(exp) == PowLoop(exp, [val |-> WOne, ovf |-> FALSE])

-----------------------------------------------------------------------------
(* Glyph (harfbuzz_wasm::Glyph) *)

Glyph(cp, fl, xa, ya, cl, xo, yo) ==
    [codepoint |-> cp, flags |-> fl, x_advance |-> xa, y_advance |-> ya,
     cluster |-> cl, x_offset |-> xo, y_offset |-> yo]

\* U+0305 COMBINING OVERLINE
Overline == 773

\* raised y_offset of an overline
OverlineYOffset == 130

-----------------------------------------------------------------------------
(* fn unicode_codepoint_to_number *)

None == [some |-> FALSE, value |-> 0]
Some(v) == [some |-> TRUE, value |-> v]

unicode_codepoint_to_number(unicode) ==
    IF unicode >= 48 /\ unicode <= 57 THEN Some((unicode - 48) % 256) ELSE None

-----------------------------------------------------------------------------
(* fn digits_to_number *)

\* one step of the fold: acc + (num as u64) * 10u64.pow(idx)
FoldStep(acc, idx, num) ==
    LET p == Pow10(idx)
        prod == WMulSmall(p.val, num)
        sum == WAdd(acc.value, prod.val)
    IN [value |-> sum.val,
        pow_overflow |-> acc.pow_overflow \/ p.ovf,
        mul_overflow |-> acc.mul_overflow \/ prod.carry # 0,
        add_overflow |-> acc.add_overflow \/ sum.carry # 0]

\* digits.iter().rev().enumerate().fold(0, ...): idx 0 is the last digit
RECURSIVE FoldDigits(_, _, _)
FoldDigits(ds, idx, acc) ==
    IF idx >= Len(ds) THEN acc
    ELSE Strict(LAMBDA v : FoldDigits(ds, idx + 1, v),
                FoldStep(acc, idx, ds[Len(ds) - idx]))

digits_to_number(ds) ==
    FoldDigits(ds, 0, [value |-> WZero, pow_overflow |-> FALSE,
                       mul_overflow |-> FALSE, add_overflow |-> FALSE])

Overflowed(r) == r.pow_overflow \/ r.mul_overflow \/ r.add_overflow

-----------------------------------------------------------------------------
(* fn number_to_roman_numeral *)

Row(v, s) == [value |-> v, symbol |-> s]

letters_without_four ==
    << Row(1000000, <<"_", "M">>),
       Row(900000, <<"_", "C", "_", "M">>),
       Row(500000, <<"_", "D">>),
       Row(400000, <<"_", "C", "_", "D">>),
       Row(100000, <<"_", "C">>),
       Row(90000, <<"_", "X", "_", "C">>),
       Row(50000, <<"_", "L">>),
       Row(40000, <<"_", "X", "_", "L">>),
       Row(10000, <<"_", "X">>),
       Row(9000, <<"_", "I", "_", "X">>),
       Row(5000, <<"_", "V">>),
       Row(4000, <<"_", "I", "_", "V">>),
       Row(1000, <<"M">>),
       Row(900, <<"C", "M">>),
       Row(500, <<"D">>),
       Row(400, <<"C", "D">>),
       Row(100, <<"C">>),
       Row(90, <<"X", "C">>),
       Row(50, <<"L">>),
       Row(40, <<"X", "L">>),
       Row(10, <<"X">>),
       Row(9, <<"I", "X">>),
       Row(5, <<"V">>),
       Row(1, <<"I">>) >>

letters ==
    << Row(1000000, <<"_", "M">>),
       Row(900000, <<"_", "C", "_", "M">>),
       Row(500000, <<"_", "D">>),
       Row(400000, <<"_", "C", "_", "D">>),
       Row(100000, <<"_", "C">>),
       Row(90000, <<"_", "X", "_", "C">>),
       Row(50000, <<"_", "L">>),
       Row(40000, <<"_", "X", "_", "L">>),
       Row(10000, <<"_", "X">>),
       Row(9000, <<"_", "I", "_", "X">>),
       Row(5000, <<"_", "V">>),
       Row(4000, <<"_", "I", "_", "V">>),
       Row(1000, <<"M">>),
       Row(900, <<"C", "M">>),
       Row(500, <<"D">>),
       Row(400, <<"C", "D">>),
       Row(100, <<"C">>),
       Row(90, <<"X", "C">>),
       Row(50, <<"L">>),
       Row(40, <<"X", "L">>),
       Row(10, <<"X">>),
       Row(9, <<"I", "X">>),
       Row(5, <<"V">>),
       Row(4, <<"I", "V">>),
       Row(1, <<"I">>) >>

RomanState(number, result, picks) ==
    [number |-> number, result |-> result, picks |-> picks]

\* the mutant of RomanLoop: `while number > value`
RECURSIVE RomanLoopStrict(_, _)
RomanLoopStrict(k, st) ==
    IF k > Len(letters) THEN st
    ELSE IF st.number > letters[k].value
         THEN RomanLoopStrict(k, RomanState(st.number - letters[k].value,
                                            st.result \o letters[k].symbol,
                                            Append(st.picks, letters[k])))
         ELSE RomanLoopStrict(k + 1, st)

\* for (value, symbol) in letters { while number >= value { ... } }
\* k is the row the for loop is at; st holds number and result, and the
\* ghost picks: the rows pushed so far, in order
RECURSIVE RomanLoop(_, _)
RomanLoop(k, st) ==
    IF k > Len(letters) THEN st
    ELSE IF st.number >= letters[k].value
         THEN RomanLoop(k, RomanState(st.number - letters[k].value,
                                      st.result \o letters[k].symbol,
                                      Append(st.picks, letters[k])))
         ELSE RomanLoop(k + 1, st)

\* the state of the function when it returns: the remaining number, result
Encode(number) == RomanLoop(1, RomanState(number, <<>>, <<>>))

number_to_roman_numeral(number) == Encode(number).result

-----------------------------------------------------------------------------
(* fn string_to_glyphs *)

\* x as u32
CharCode(x) ==
    CASE x = "_" -> 95
      [] x = "C" -> 67
      [] x = "D" -> 68
      [] x = "I" -> 73
      [] x = "L" -> 76
      [] x = "M" -> 77
      [] x = "V" -> 86
      [] x = "X" -> 88

\* the mutant of string_to_glyphs: the overline keeps its own index as cluster
string_to_glyphs_own_cluster(string) ==
    [j \in 1..Len(string) |->
        Glyph(IF string[j] = "_" THEN Overline ELSE CharCode(string[j]),
              0, 0, 0, j - 1, 0, 0)]

\* the mutant of string_to_glyphs: '_' is rendered as itself
string_to_glyphs_plain_underscore(string) ==
    [j \in 1..Len(string) |->
        Glyph(CharCode(string[j]), 0, 0, 0,
              IF string[j] = "_" THEN j ELSE j - 1, 0, 0)]

\* .chars().enumerate().map(...): ix = j - 1 for the j-th character
string_to_glyphs(string) ==
    [j \in 1..Len(string) |->
        Glyph(IF string[j] = "_" THEN Overline ELSE CharCode(string[j]),
              0, 0, 0,
              IF string[j] = "_" THEN (j - 1) + 1 ELSE j - 1,
              0, 0)]

-----------------------------------------------------------------------------
(* fn process_digits *)

\* ghost record of one conversion
Conversion(ds, number, roman, roman_glyphs, at) ==
    [run |-> ds, number |-> number, roman |-> roman, glyphs |-> roman_glyphs, at |-> at]

\* the mutant of process_digits: digits.clear() is forgotten
process_digits_no_clear(ds, o) ==
    IF ds = <<>> THEN {[status |-> "ok", digits |-> ds, out |-> o, conv |-> <<>>]}
    ELSE LET number == digits_to_number(ds)
         IN (IF Overflowed(number)
             THEN {[status |-> "panic", digits |-> ds, out |-> o, conv |-> <<>>]}
             ELSE {})
            \cup
            {IF FitsInt(number.value)
             THEN LET roman == number_to_roman_numeral(AsInt(number.value))
                      roman_glyphs == string_to_glyphs(roman)
                  IN [status |-> "ok", digits |-> ds, out |-> o \o roman_glyphs,
                      conv |-> <<Conversion(ds, AsInt(number.value), roman,
                                            roman_glyphs, Len(o))>>]
             ELSE [status |-> "huge", digits |-> ds, out |-> o, conv |-> <<>>]}

\* The outcomes of process_digits(&mut digits, &mut out): the new digits and
\* out.  An arithmetic overflow in digits_to_number panics in a build with
\* overflow checks and wraps in a build without: both outcomes are kept.
\* "huge": the wrapped value is 2^31 or more and its encoding is not computed.
process_digits(ds, o) ==
    IF ds = <<>> THEN {[status |-> "ok", digits |-> ds, out |-> o, conv |-> <<>>]}
    ELSE LET number == digits_to_number(ds)
         IN (IF Overflowed(number)
             THEN {[status |-> "panic", digits |-> ds, out |-> o, conv |-> <<>>]}
             ELSE {})
            \cup
            {IF FitsInt(number.value)
             THEN LET roman == number_to_roman_numeral(AsInt(number.value))
                      roman_glyphs == string_to_glyphs(roman)
                  IN [status |-> "ok", digits |-> <<>>, out |-> o \o roman_glyphs,
                      conv |-> <<Conversion(ds, AsInt(number.value), roman,
                                            roman_glyphs, Len(o))>>]
             ELSE [status |-> "huge", digits |-> ds, out |-> o, conv |-> <<>>]}

-----------------------------------------------------------------------------
(* The Font collaborator (harfbuzz_wasm::Font): two fonts.  "plain" maps   *)
(* every codepoint to the next index; "collide" gives the overline index 1 *)
(* and gives ':' the index 0x305.                                          *)

Fonts == {"plain", "collide"}

get_glyph(f, unicode, uvs) ==
    IF f = "plain" THEN unicode + 1
    ELSE IF unicode = Overline THEN 1
    ELSE IF unicode = 58 THEN Overline
    ELSE unicode

get_glyph_h_advance(f, glyph) ==
    IF f = "plain" THEN 400 + glyph ELSE 600

-----------------------------------------------------------------------------
(* The body of the resolver loop of shape (lib.rs 34-49) *)

\* the mutant: the overline test reads the codepoint after it is overwritten
resolve_item_late_test(f, item) ==
    LET codepoint == get_glyph(f, item.codepoint, 0)
        is_overline == codepoint = Overline
    IN [item EXCEPT !.codepoint = codepoint,
                    !.x_advance = IF is_overline THEN 0
                                  ELSE get_glyph_h_advance(f, codepoint),
                    !.y_offset = IF is_overline THEN OverlineYOffset ELSE 0]

\* the mutant: the item is rebuilt from scratch instead of updated in place
resolve_item_rebuilt(f, item) ==
    LET is_overline == item.codepoint = Overline
        codepoint == get_glyph(f, item.codepoint, 0)
    IN Glyph(codepoint, 0,
             IF is_overline THEN 0 ELSE get_glyph_h_advance(f, codepoint),
             0, item.cluster, 0,
             IF is_overline THEN OverlineYOffset ELSE 0)

resolve_item(f, item) ==
    LET is_overline == item.codepoint = Overline
        codepoint == get_glyph(f, item.codepoint, 0)
    IN [item EXCEPT !.codepoint = codepoint,
                    !.x_advance = IF is_overline THEN 0
                                  ELSE get_glyph_h_advance(f, codepoint),
                    !.y_offset = IF is_overline THEN OverlineYOffset ELSE 0]

-----------------------------------------------------------------------------
(* Inputs of shape *)

\* the j-th glyph of a host buffer: cluster = character index, and metrics
\* and flags that are not zero, so that a change to them shows
InputGlyph(cp, j) == Glyph(cp, j % 2, 11, 7, j - 1, 3, 5)

InputOf(cps) == [j \in 1..Len(cps) |-> InputGlyph(cps[j], j)]

\* '0', '4', '9', ':' and the combining overline itself
Alphabet == {48, 52, 57, 58, Overline}

Scenarios ==
    { <<97, 98, 99, 49, 50, 51, 100, 101, 102>>,      \* "abc123def"
      <<120, 57>>,                                    \* "x9"
      <<49, 50, 51, 50, 49, 58>>,                     \* "12321:"
      <<47, 48, 58>>,                                 \* "/0:"
      [j \in 1..MaxZeros |-> 48] \o <<57>>,           \* "00...09"
      [j \in 1..MaxZeros |-> 48] \o <<57, 58, 52>> }  \* "00...09:4"

Inputs == {InputOf(cps) : cps \in SeqsUpTo(Alphabet, MaxLen) \cup Scenarios}

-----------------------------------------------------------------------------
(* fn shape *)

NoNumber == digits_to_number(<<>>)
NoRoman == Encode(0)

ConvIdle ==
    /\ c_digits = <<>>
    /\ c_stage = "idle"
    /\ c_number = NoNumber
    /\ c_roman = NoRoman
    /\ c_glyphs = <<>>

Init ==
    /\ input \in Inputs
    /\ font \in Fonts
    /\ buffer = input
    /\ pc = "scan"
    /\ pos = 1
    /\ digits = <<>>
    /\ out = <<>>
    /\ rpos = 1
    /\ assembled = <<>>
    /\ flushed = <<>>
    /\ ConvIdle

\* lines 18-20: the item is a digit
ScanDigit ==
    /\ pc = "scan"
    /\ pos <= Len(buffer)
    /\ unicode_codepoint_to_number(buffer[pos].codepoint).some
    /\ digits' = Append(digits, unicode_codepoint_to_number(buffer[pos].codepoint).value)
    /\ pos' = pos + 1
    /\ UNCHANGED <<input, font, buffer, pc, out, rpos, assembled, flushed>>
    /\ UNCHANGED conv_vars

\* lines 21-26: the item is no digit
ScanOther ==
    /\ pc = "scan"
    /\ pos <= Len(buffer)
    /\ ~unicode_codepoint_to_number(buffer[pos].codepoint).some
    /\ \E r \in process_digits(digits, out) :
          IF r.status = "ok"
          THEN /\ digits' = r.digits
               /\ out' = Append(r.out, buffer[pos])
               /\ flushed' = flushed \o r.conv
               /\ pos' = pos + 1
               /\ pc' = pc
          ELSE /\ pc' = r.status
               /\ UNCHANGED <<digits, out, flushed, pos>>
    /\ UNCHANGED <<input, font, buffer, rpos, assembled>>
    /\ UNCHANGED conv_vars

\* the mutant of FinalFlush: the trailing run is not flushed
FinalFlushSkipped ==
    /\ pc = "scan"
    /\ pos > Len(buffer)
    /\ pc' = "resolve"
    /\ rpos' = 1
    /\ assembled' = out
    /\ UNCHANGED <<input, font, buffer, pos, digits, out, flushed>>
    /\ UNCHANGED conv_vars

\* lines 29-30: the loop is over, the trailing run is flushed
FinalFlush ==
    /\ pc = "scan"
    /\ pos > Len(buffer)
    /\ \E r \in process_digits(digits, out) :
          IF r.status = "ok"
          THEN /\ digits' = r.digits
               /\ out' = r.out
               /\ flushed' = flushed \o r.conv
               /\ assembled' = r.out
               /\ rpos' = 1
               /\ pc' = "resolve"
          ELSE /\ pc' = r.status
               /\ UNCHANGED <<digits, out, flushed, assembled, rpos>>
    /\ UNCHANGED <<input, font, buffer, pos>>
    /\ UNCHANGED conv_vars

\* lines 33-50: one item of the resolver loop
Resolve ==
    /\ pc = "resolve"
    /\ rpos <= Len(out)
    /\ out' = [out EXCEPT ![rpos] = resolve_item(font, out[rpos])]
    /\ rpos' = rpos + 1
    /\ UNCHANGED <<input, font, buffer, pc, pos, digits, assembled, flushed>>
    /\ UNCHANGED conv_vars

\* line 52 and the write-back on drop
Commit ==
    /\ pc = "resolve"
    /\ rpos > Len(out)
    /\ buffer' = out
    /\ pc' = "done"
    /\ UNCHANGED <<input, font, pos, digits, out, rpos, assembled, flushed>>
    /\ UNCHANGED conv_vars

Next ==
    \/ ScanDigit
    \/ ScanOther
    \/ FinalFlush
    \/ Resolve
    \/ Commit

Spec == Init /\ [][Next]_vars

-----------------------------------------------------------------------------
(* process_digits statement by statement, on a wider set of digit runs *)

RunAlphabet == {0, 1, 2, 3, 4, 8, 9}

RECURSIVE DecimalDigits(_)
DecimalDigits(n) ==
    IF n < 10 THEN <<n>> ELSE Append(DecimalDigits(n \div 10), n % 10)

DenseRuns == SeqsUpTo(RunAlphabet, MaxRunLen)

PaddedRuns ==
    {Zeros(k) \o t : k \in 1..MaxZeros, t \in SeqsUpTo(RunAlphabet, MaxTail)}

MillionRuns == {DecimalDigits(m) \o Zeros(6) : m \in 1..MaxMillions}

\* the vectors of the unit tests (lib.rs 154-163, 168-177) and the ends of u64
TestRuns ==
    { <<1>>, <<2>>, <<1, 1, 1>>, <<1, 2, 3>>, <<3, 2, 1>>, <<3, 2, 1, 4, 5, 6>>, <<>>,
      <<9>>, <<1, 1>>, <<1, 2, 1>>, <<2, 3, 2, 1>>, <<1, 2, 3, 2, 1>>,
      <<3, 9, 9, 9, 9, 9, 9>>, <<3, 8, 8, 8, 8, 8, 8>>, <<4, 0, 0, 0, 0, 0, 1>>,
      <<1, 8, 4, 4, 6, 7, 4, 4, 0, 7, 3, 7, 0, 9, 5, 5, 1, 6, 1, 5>>,
      <<1, 8, 4, 4, 6, 7, 4, 4, 0, 7, 3, 7, 0, 9, 5, 5, 1, 6, 1, 6>>,
      <<1>> \o Zeros(19),
      <<1>> \o Zeros(20),
      [j \in 1..20 |-> 9] }

Runs == DenseRuns \cup PaddedRuns \cup MillionRuns \cup TestRuns

ShapeIdle ==
    /\ input = <<>>
    /\ font = "plain"
    /\ buffer = <<>>
    /\ pc = "idle"
    /\ pos = 1
    /\ digits = <<>>
    /\ out = <<>>
    /\ rpos = 1
    /\ assembled = <<>>
    /\ flushed = <<>>

InitConvert ==
    /\ ShapeIdle
    /\ c_digits \in Runs
    /\ c_stage = "start"
    /\ c_number = NoNumber
    /\ c_roman = NoRoman
    /\ c_glyphs = <<>>

\* line 69: the run is empty, nothing is done
ConvSkip ==
    /\ c_stage = "start"
    /\ c_digits = <<>>
    /\ c_stage' = "skipped"
    /\ UNCHANGED <<c_digits, c_number, c_roman, c_glyphs>>
    /\ UNCHANGED shape_vars

\* line 71: let number = digits_to_number(digits)
ConvNumber ==
    /\ c_stage = "start"
    /\ c_digits # <<>>
    /\ c_number' = digits_to_number(c_digits)
    /\ c_stage' \in {"number"} \cup (IF Overflowed(c_number') THEN {"panic"} ELSE {})
    /\ UNCHANGED <<c_digits, c_roman, c_glyphs>>
    /\ UNCHANGED shape_vars

\* line 73: let roman = number_to_roman_numeral(number)
ConvRoman ==
    /\ c_stage = "number"
    /\ IF FitsInt(c_number.value)
       THEN /\ c_roman' = Encode(AsInt(c_number.value))
            /\ c_stage' = "roman"
       ELSE /\ c_stage' = "huge"
            /\ UNCHANGED c_roman
    /\ UNCHANGED <<c_digits, c_number, c_glyphs>>
    /\ UNCHANGED shape_vars

\* line 74: let roman_glyphs = string_to_glyphs(&roman)
ConvGlyphs ==
    /\ c_stage = "roman"
    /\ c_glyphs' = string_to_glyphs(c_roman.result)
    /\ c_stage' = "glyphs"
    /\ UNCHANGED <<c_digits, c_number, c_roman>>
    /\ UNCHANGED shape_vars

NextConvert ==
    \/ ConvSkip
    \/ ConvNumber
    \/ ConvRoman
    \/ ConvGlyphs

SpecConvert == InitConvert /\ [][NextConvert]_vars

-----------------------------------------------------------------------------
(* shape and process_digits side by side *)

InitAll == Init \/ InitConvert

NextAll == Next \/ NextConvert

SpecAll == InitAll /\ [][NextAll]_vars

-----------------------------------------------------------------------------
(* Reference definitions used by the properties *)

IsDigitGlyph(g) == g.codepoint \in 48..57

\* the length of the maximal run of digit glyphs s starts with
DigitPrefixLen(s) ==
    CHOOSE n \in 0..Len(s) :
        /\ \A j \in 1..n : IsDigitGlyph(s[j])
        /\ n = Len(s) \/ ~IsDigitGlyph(s[n + 1])

\* the length of the maximal run of digit glyphs s ends with
DigitSuffixLen(s) ==
    CHOOSE n \in 0..Len(s) :
        /\ \A j \in (Len(s) - n + 1)..Len(s) : IsDigitGlyph(s[j])
        /\ n = Len(s) \/ ~IsDigitGlyph(s[Len(s) - n])

RunOf(s) == [j \in 1..Len(s) |-> s[j].codepoint - 48]

NumeralOf(run) ==
    string_to_glyphs(number_to_roman_numeral(AsInt(digits_to_number(run).value)))

\* the input with every maximal digit run replaced by its numeral
RECURSIVE ExpectedOut(_)
ExpectedOut(s) ==
    IF s = <<>> THEN <<>>
    ELSE IF ~IsDigitGlyph(s[1]) THEN <<s[1]>> \o ExpectedOut(Tail(s))
    ELSE LET n == DigitPrefixLen(s)
         IN NumeralOf(RunOf(SubSeq(s, 1, n))) \o ExpectedOut(SubSeq(s, n + 1, Len(s)))

\* the number of maximal digit runs of s
RunCount(s) ==
    Cardinality({j \in 1..Len(s) :
                    IsDigitGlyph(s[j]) /\ (j = 1 \/ ~IsDigitGlyph(s[j - 1]))})

HasDigit(s) == \E j \in 1..Len(s) : IsDigitGlyph(s[j])

\* the base-10 value of a run by Horner's rule, at the width of a u64, and
\* whether that value is below 2^64
RECURSIVE Horner(_, _, _)
Horner(ds, j, acc) ==
    IF j > Len(ds) THEN acc
    ELSE LET m == WMulSmall(acc.val, 10)
             a == WAdd(m.val, <<ds[j], 0, 0, 0>>)
         IN Strict(LAMBDA v : Horner(ds, j + 1, v),
                   [val |-> a.val,
                    representable |-> acc.representable /\ m.carry = 0 /\ a.carry = 0])

DecimalValue(ds) == Horner(ds, 1, [val |-> WZero, representable |-> TRUE])

\* repeatedly take the largest row that is no larger than what remains
RECURSIVE Greedy(_)
Greedy(n) ==
    IF \A k \in 1..Len(letters) : letters[k].value > n THEN <<>>
    ELSE LET k == CHOOSE k \in 1..Len(letters) :
                      /\ letters[k].value <= n
                      /\ \A h \in 1..Len(letters) :
                            letters[h].value <= n => letters[h].value <= letters[k].value
         IN letters[k].symbol \o Greedy(n - letters[k].value)

LetterValue(x) ==
    CASE x = "I" -> 1
      [] x = "V" -> 5
      [] x = "X" -> 10
      [] x = "L" -> 50
      [] x = "C" -> 100
      [] x = "D" -> 500
      [] x = "M" -> 1000

\* the value of the letter at position j: x1000 under an overline
ValueAt(s, j) ==
    IF j > 1 /\ s[j - 1] = "_" THEN 1000 * LetterValue(s[j]) ELSE LetterValue(s[j])

\* the usual reading of a Roman numeral: a letter standing before a larger
\* one is subtracted, every other letter is added
RomanValue(s) ==
    LET L == {j \in 1..Len(s) : s[j] # "_"}
        Signed(j) ==
            IF \E h \in L : h > j /\ (\A g \in L : g > j => h <= g)
                             /\ ValueAt(s, h) > ValueAt(s, j)
            THEN 0 - ValueAt(s, j) ELSE ValueAt(s, j)
    IN SumSeq([j \in 1..Len(s) |-> IF j \in L THEN Signed(j) ELSE 0])

\* rows whose symbol may repeat: I, X, C, M and their overlined forms
IsPowerOfTenRow(row) == row.value \in {1, 10, 100, 1000, 10000, 100000, 1000000}

Converted == c_stage \in {"roman", "glyphs"}

-----------------------------------------------------------------------------
(* Properties of shape, checked under Spec *)

Scanned == pc \in {"resolve", "done"}

\* C1: the sequence shape has assembled when the resolver loop starts is the
\* input with every maximal run of digit glyphs replaced, in place, by the
\* glyphs of string_to_glyphs(number_to_roman_numeral(digits_to_number(run)))
\* and every other glyph copied once, unchanged and in order; every run is
\* converted once, from its own digits only.
C1_RunsReplaced ==
    Scanned =>
        /\ assembled = ExpectedOut(input)
        /\ Len(flushed) = RunCount(input)
        /\ \A k \in 1..Len(flushed) :
              \E j \in 1..Len(input) :
                 /\ IsDigitGlyph(input[j])
                 /\ j = 1 \/ ~IsDigitGlyph(input[j - 1])
                 /\ flushed[k].run =
                       RunOf(SubSeq(input, j, j + DigitPrefixLen(SubSeq(input, j, Len(input))) - 1))

\* two different runs, both with a numeral, around a glyph that is passed through
C1_Witness ==
    /\ pc = "done"
    /\ Len(flushed) = 2
    /\ flushed[1].run # flushed[2].run
    /\ flushed[1].glyphs # <<>>
    /\ flushed[2].glyphs # <<>>
    /\ Len(assembled) = Len(flushed[1].glyphs) + 1 + Len(flushed[2].glyphs)

\* the glyphs the resolver makes of the numeral of a run
ResolvedNumeralOf(run) ==
    [j \in 1..Len(NumeralOf(run)) |-> resolve_item(font, NumeralOf(run)[j])]

\* C2: when the input ends with a digit glyph and shape has finished, the
\* digit run is empty and the numeral glyphs of the trailing run are the last
\* glyphs of the output, after everything the rest of the input produced.
C2_TrailingRunFlushed ==
    pc = "done" =>
        /\ digits = <<>>
        /\ (input # <<>> /\ IsDigitGlyph(input[Len(input)])) =>
              LET n == DigitSuffixLen(input)
                  run == RunOf(SubSeq(input, Len(input) - n + 1, Len(input)))
                  before == ExpectedOut(SubSeq(input, 1, Len(input) - n))
              IN /\ Len(flushed) >= 1
                 /\ flushed[Len(flushed)].run = run
                 /\ assembled = before \o NumeralOf(run)
                 /\ Len(buffer) = Len(before) + Len(NumeralOf(run))
                 /\ SubSeq(buffer, Len(before) + 1, Len(buffer)) = ResolvedNumeralOf(run)

\* a glyph that is passed through, then a trailing run with a numeral
C2_Witness ==
    /\ pc = "done"
    /\ Len(input) >= 2
    /\ ~IsDigitGlyph(input[1])
    /\ IsDigitGlyph(input[Len(input)])
    /\ flushed # <<>>
    /\ flushed[Len(flushed)].glyphs # <<>>
    /\ flushed[Len(flushed)].at >= 1

\* C6: every glyph the resolver has treated has the glyph index of its former
\* codepoint; it has x_advance 0 and y_offset 130 when that former codepoint was
\* 0x305, and y_offset 0 and the font's advance of its glyph index otherwise.
C6_Resolved ==
    Scanned =>
        /\ Len(out) = Len(assembled)
        /\ pc = "done" => (rpos = Len(out) + 1 /\ buffer = out)
        /\ \A j \in 1..(rpos - 1) :
              /\ out[j].codepoint = get_glyph(font, assembled[j].codepoint, 0)
              /\ IF assembled[j].codepoint = 773
                 THEN out[j].x_advance = 0 /\ out[j].y_offset = 130
                 ELSE /\ out[j].y_offset = 0
                      /\ out[j].x_advance = get_glyph_h_advance(font, out[j].codepoint)

\* a numeral with an overline, and a glyph that is no overline and whose glyph
\* index is 0x305
C6_Witness ==
    /\ pc = "done"
    /\ \E k \in 1..Len(flushed) : \E j \in 1..Len(flushed[k].roman) : flushed[k].roman[j] = "_"
    /\ \E j \in 1..Len(buffer) :
          /\ assembled[j].codepoint # 773
          /\ buffer[j].codepoint = 773
          /\ buffer[j].y_offset = 0
    /\ \E j \in 1..Len(buffer) : assembled[j].codepoint = 773 /\ buffer[j].codepoint # 773

SameButResolved(g, h) ==
    /\ g.cluster = h.cluster
    /\ g.flags = h.flags
    /\ g.y_advance = h.y_advance
    /\ g.x_offset = h.x_offset

\* C7: the resolver changes no cluster, flags, y_advance or x_offset; when the
\* input has no digit glyph the output has the length of the input and its
\* glyphs differ from the input's in codepoint, x_advance and y_offset at most.
C7_Frame ==
    Scanned =>
        /\ Len(out) = Len(assembled)
        /\ \A j \in 1..Len(out) : SameButResolved(out[j], assembled[j])
        /\ ~HasDigit(input) =>
              /\ Len(out) = Len(input)
              /\ \A j \in 1..Len(out) : SameButResolved(out[j], input[j])
              /\ pc = "done" =>
                    /\ Len(buffer) = Len(input)
                    /\ \A j \in 1..Len(buffer) : SameButResolved(buffer[j], input[j])

\* an input without digits, resolved: glyphs with flags and metrics that are
\* not zero, whose codepoint, x_advance and y_offset did change
C7_Witness ==
    /\ pc = "done"
    /\ ~HasDigit(input)
    /\ Len(input) >= 2
    /\ \E j \in 1..Len(buffer) :
          /\ buffer[j].flags # 0
          /\ buffer[j].y_advance # 0
          /\ buffer[j].codepoint # input[j].codepoint
          /\ buffer[j].x_advance # input[j].x_advance
          /\ buffer[j].y_offset # input[j].y_offset

\* C8: number_to_roman_numeral is never called with 0 during shaping: every
\* conversion process_digits makes is of a number that is not 0 and appends at
\* least one glyph.
C8_NeverZero ==
    \A k \in 1..Len(flushed) : flushed[k].number # 0 /\ flushed[k].glyphs # <<>>

-----------------------------------------------------------------------------
(* Properties of the conversion, checked under SpecConvert *)

Numbered == c_stage \in {"number", "huge", "roman", "glyphs", "panic"}

\* C4: for every run whose base-10 value is below 2^64, digits_to_number
\* returns that value and neither the power, nor the product, nor the sum
\* overflows; the empty run gives 0.
C4_ExactWithoutOverflow ==
    /\ digits_to_number(<<>>).value = WZero
    /\ (Numbered /\ DecimalValue(c_digits).representable) =>
          /\ c_number.value = DecimalValue(c_digits).val
          /\ ~c_number.pow_overflow
          /\ ~c_number.mul_overflow
          /\ ~c_number.add_overflow

StringOf(rows) == Concat([j \in 1..Len(rows) |-> rows[j].symbol])

ValueOf(rows) == SumSeq([j \in 1..Len(rows) |-> rows[j].value])

NonIncreasing(rows) == \A j \in 1..(Len(rows) - 1) : rows[j].value >= rows[j + 1].value

\* C3: number_to_roman_numeral(n) returns with nothing left of n, and its
\* result is the greedy decomposition of n over the table: rows in
\* non-increasing order whose values sum to n, empty exactly for 0; with the
\* values of the unit test.
C3_Greedy ==
    Converted =>
        LET n == AsInt(c_number.value)
            r == c_roman
        IN /\ r.number = 0
           /\ r.result = Greedy(n)
           /\ r.result = StringOf(r.picks)
           /\ ValueOf(r.picks) = n
           /\ NonIncreasing(r.picks)
           /\ RomanValue(r.result) = n
           /\ r.result = <<>> <=> n = 0
           /\ n = 1 => r.result = <<"I">>
           /\ n = 2 => r.result = <<"I", "I">>
           /\ n = 9 => r.result = <<"I", "X">>
           /\ n = 11 => r.result = <<"X", "I">>
           /\ n = 121 => r.result = <<"C", "X", "X", "I">>
           /\ n = 2321 => r.result = <<"M", "M", "C", "C", "C", "X", "X", "I">>
           /\ n = 12321 => r.result = <<"_", "X", "M", "M", "C", "C", "C", "X", "X", "I">>

C3_Witness ==
    /\ c_stage = "roman"
    /\ c_digits = <<1, 2, 3, 2, 1>>
    /\ c_roman.result = <<"_", "X", "M", "M", "C", "C", "C", "X", "X", "I">>
    /\ c_roman.number = 0

StrictlyDescending(rows) == \A j \in 1..(Len(rows) - 1) : rows[j].value > rows[j + 1].value

RepeatLimit(row) == IF IsPowerOfTenRow(row) THEN 3 ELSE 1

\* C9 as stated: the table is strictly descending and, for every n >= 1, the
\* rows are emitted in non-increasing order, a power-of-ten symbol at most
\* three times and every other symbol at most once.
C9_Canonical ==
    /\ StrictlyDescending(letters)
    /\ (Converted /\ AsInt(c_number.value) >= 1) =>
          /\ NonIncreasing(c_roman.picks)
          /\ \A k \in 1..Len(letters) :
                Count(c_roman.picks, letters[k]) <= RepeatLimit(letters[k])

\* C9 amended: the same for every n from 1 to 3,999,999; from 4,000,000 on
\* only _M goes over its limit: it is emitted n div 1,000,000 times.
C9_CanonicalBelowFourMillion ==
    /\ StrictlyDescending(letters)
    /\ (Converted /\ AsInt(c_number.value) >= 1) =>
          LET n == AsInt(c_number.value)
          IN /\ NonIncreasing(c_roman.picks)
             /\ \A k \in 1..Len(letters) :
                   (n <= 3999999 \/ letters[k].value # 1000000) =>
                       Count(c_roman.picks, letters[k]) <= RepeatLimit(letters[k])
             /\ \A k \in 1..Len(letters) :
                   letters[k].value = 1000000 =>
                       Count(c_roman.picks, letters[k]) = n \div 1000000

\* the largest value with a canonical form: every symbol at its limit
C9_Witness ==
    /\ c_stage = "roman"
    /\ AsInt(c_number.value) = 3888888
    /\ Len(c_roman.picks) = 27
    /\ \A k \in 1..Len(letters) :
          IsPowerOfTenRow(letters[k]) => Count(c_roman.picks, letters[k]) = 3

\* C10: in the glyphs of a numeral every overline glyph is followed by a glyph
\* that is no overline and has the overline's cluster, so no numeral ends with
\* an overline, no two overlines are adjacent and the cluster of an overline is
\* an index of the Roman string.
C10_OverlineHasBase ==
    c_stage = "glyphs" =>
        \A j \in 1..Len(c_glyphs) :
            c_glyphs[j].codepoint = 773 =>
                /\ j < Len(c_glyphs)
                /\ c_glyphs[j + 1].codepoint # 773
                /\ c_glyphs[j + 1].cluster = c_glyphs[j].cluster
                /\ c_glyphs[j].cluster <= Len(c_roman.result) - 1

\* a numeral with two overlines next to each other's base letter: _I_X
C10_Witness ==
    /\ c_stage = "glyphs"
    /\ Len(c_glyphs) >= 4
    /\ c_glyphs[1].codepoint = 773
    /\ c_glyphs[3].codepoint = 773
    /\ c_glyphs[2].cluster = 1
    /\ c_glyphs[4].cluster = 3

-----------------------------------------------------------------------------
(* Property of string_to_glyphs, checked under SpecAll *)

\* the glyphs are those of the string, character by character
Rendered(string, glyphs) ==
    /\ Len(glyphs) = Len(string)
    /\ \A j \in 1..Len(string) :
          /\ glyphs[j].flags = 0
          /\ glyphs[j].x_advance = 0
          /\ glyphs[j].y_advance = 0
          /\ glyphs[j].x_offset = 0
          /\ glyphs[j].y_offset = 0
          /\ IF string[j] = "_"
             THEN glyphs[j].codepoint = 773 /\ glyphs[j].cluster = (j - 1) + 1
             ELSE glyphs[j].codepoint = CharCode(string[j]) /\ glyphs[j].cluster = j - 1

\* the glyphs of "CXXIII"
GlyphsOfCXXIII ==
    << Glyph(67, 0, 0, 0, 0, 0, 0), Glyph(88, 0, 0, 0, 1, 0, 0),
       Glyph(88, 0, 0, 0, 2, 0, 0), Glyph(73, 0, 0, 0, 3, 0, 0),
       Glyph(73, 0, 0, 0, 4, 0, 0), Glyph(73, 0, 0, 0, 5, 0, 0) >>

\* C5: string_to_glyphs makes one glyph per character, with the character's
\* index as cluster and its scalar value as codepoint, but 0x305 and the next
\* index for '_'; flags, advances and offsets are 0.  The glyphs of the run
\* "123" are those of "CXXIII" with clusters 0..5, also inside shape, where
\* the digit glyphs had other clusters.
C5_Rendered ==
    /\ c_stage = "glyphs" =>
          /\ Rendered(c_roman.result, c_glyphs)
          /\ c_digits = <<1, 2, 3>> => c_glyphs = GlyphsOfCXXIII
    /\ \A k \in 1..Len(flushed) :
          /\ Rendered(flushed[k].roman, flushed[k].glyphs)
          /\ flushed[k].run = <<1, 2, 3>> => flushed[k].glyphs = GlyphsOfCXXIII
    /\ \A k \in 1..Len(flushed) :
          Scanned => SubSeq(assembled, flushed[k].at + 1,
                            flushed[k].at + Len(flushed[k].glyphs)) = flushed[k].glyphs

\* "abc123def": the digit glyphs had clusters 3, 4, 5
C5_Witness ==
    /\ pc = "done"
    /\ Len(input) = 9
    /\ input[4].codepoint = 49 /\ input[4].cluster = 3
    /\ input[6].codepoint = 51 /\ input[6].cluster = 5
    /\ Len(flushed) = 1
    /\ flushed[1].run = <<1, 2, 3>>
    /\ SubSeq(assembled, 4, 9) = GlyphsOfCXXIII
    /\ Len(assembled) = 12

====
